---- MODULE Spec2Model ----
(***************************************************************************)
(* Showtime scheduling of the cinema back end: the showtime controller     *)
(* (createShowtime, updateShowtime, deleteShowtime, getShowtime and the    *)
(* three listing queries) over the Showtime collection, with the Movie and *)
(* Cinema catalog it reads.  Time is counted in minutes since the epoch.   *)
(***************************************************************************)
EXTENDS Integers, Sequences, FiniteSets, TLC

VARIABLES
  showtimes,   \* the Showtime collection: a sequence of documents, _id = index
  movies,      \* the Movie collection: _id -> document
  created,     \* history: per showtime, the startTime and movie duration read by createShowtime
  now,         \* the wall clock (new Date())
  tz,          \* the server's local time zone offset, minutes east of UTC
  last,        \* the last request served: handler, HTTP status, showtime _id named or created
  procs        \* createShowtime requests in flight (interleaved specification)

vars == <<showtimes, movies, created, now, tz, last, procs>>

(***************************************************************************)
(* Bounds of the model                                                     *)
(***************************************************************************)
MaxShowtimes == 2

None == "none"

\* req.query.date when the request names no date
NoDate == -1

(***************************************************************************)
(* JavaScript Date arithmetic (local time), in minutes                     *)
(***************************************************************************)
LocalTime(t, z) == t + z

UTCOf(l, z) == l - z

Day(t) == t \div (24 * 60)

TimeWithinDay(t) == t % (24 * 60)

HourFromTime(t) == TimeWithinDay(t) \div 60

MinFromTime(t) == TimeWithinDay(t) % 60

MakeDate(day, time) == day * (24 * 60) + time

getMinutes(t, z) == MinFromTime(LocalTime(t, z))

setMinutes(t, m, z) ==
  UTCOf(MakeDate(Day(LocalTime(t, z)), HourFromTime(LocalTime(t, z)) * 60 + m), z)

\* setHours(h, m, s, ms): s and ms are below the model's resolution of one minute
setHours(t, h, m, z) == UTCOf(MakeDate(Day(LocalTime(t, z)), h * 60 + m), z)

CleaningBuffer == 15

\* the end time without the cleaning buffer
EndTimeNoBuffer(startTime, duration, z) ==
  setMinutes(startTime, getMinutes(startTime, z) + duration, z)

\* const endTime = new Date(startTime);
\* endTime.setMinutes(endTime.getMinutes() + movie.duration + 15)
EndTimeOf(startTime, duration, z) ==
  setMinutes(startTime, getMinutes(startTime, z) + duration + CleaningBuffer, z)

(***************************************************************************)
(* The catalog: movies and cinemas with their screens                      *)
(***************************************************************************)
MovieIds == {"m1", "m2", "m0"}

CinemaIds == {"c1", "c2", "c0"}

ScreenIds == {"s1", "s2", "s3"}

Durations == {120, 90}

TZOffsets == {0, 330}

\* m1 is showing, m2 has been withdrawn, m0 is no document of the collection
InitialMovies ==
  [m \in {"m1", "m2"} |->
     IF m = "m1" THEN [duration |-> 120, status |-> "now-showing", isActive |-> TRUE]
                 ELSE [duration |-> 90, status |-> "ended", isActive |-> FALSE]]

\* c1 is open with screens s1 and s2, c2 is closed with screen s3, c0 does not exist
Cinemas ==
  [c \in {"c1", "c2"} |->
     IF c = "c1"
     THEN [isActive |-> TRUE, priceList |-> "list1",
           screens |-> [s \in {"s1", "s2"} |-> [seats |-> [total |-> 2]]]]
     ELSE [isActive |-> FALSE, priceList |-> "list2",
           screens |-> [s \in {"s3"} |-> [seats |-> [total |-> 1]]]]]

MovieExists(m) == m \in DOMAIN movies

CinemaExists(c) == c \in DOMAIN Cinemas

\* cinema.screens.id(screenId)
ScreenExists(c, s) == s \in DOMAIN Cinemas[c].screens

(***************************************************************************)
(* The Showtime collection                                                 *)
(***************************************************************************)
Ids == 1..Len(showtimes)

\* Showtime.findById
ShowtimeExists(id) == id \in Ids

\* the interval test with closed bounds
IntersectsClosed(e, startTime, endTime) ==
  e.startTime <= endTime /\ e.endTime >= startTime

\* the interval test of the conflict query:
\* startTime: { $lt: endTime }, endTime: { $gt: new Date(startTime) }
Intersects(e, startTime, endTime) ==
  e.startTime < endTime /\ e.endTime > startTime

\* the conflict query without its isActive filter
ConflictingWithDeleted(store, cinemaId, screenId, date, startTime, endTime) ==
  {i \in 1..Len(store) :
     /\ store[i].cinemaId = cinemaId
     /\ store[i].screenId = screenId
     /\ store[i].date = date
     /\ Intersects(store[i], startTime, endTime)}

\* Showtime.findOne({cinemaId, screenId, date, $or: [...], isActive: true}):
\* the documents the query matches
Conflicting(store, cinemaId, screenId, date, startTime, endTime) ==
  {i \in 1..Len(store) :
     /\ store[i].cinemaId = cinemaId
     /\ store[i].screenId = screenId
     /\ store[i].date = date
     /\ Intersects(store[i], startTime, endTime)
     /\ store[i].isActive}

\* the values of req.body.price that JavaScript's || takes for false: undefined
\* (no price supplied), and the supplied values 0 and "" (named "0" and "")
Falsy(v) == v \in {None, "0", ""}

\* the document built with the cinema's price list whatever price is supplied
NewShowtimeDefaultPrice(movieId, cinemaId, screenId, startTime, endTime, date, price) ==
  [movieId |-> movieId,
   cinemaId |-> cinemaId,
   screenId |-> screenId,
   startTime |-> startTime,
   endTime |-> endTime,
   date |-> date,
   price |-> Cinemas[cinemaId].priceList,
   availableSeats |-> Cinemas[cinemaId].screens[screenId].seats.total,
   bookedSeats |-> {},
   status |-> "upcoming",
   isActive |-> TRUE]

\* the document Showtime.create builds; bookedSeats, status and isActive
\* take the schema's defaults
NewShowtime(movieId, cinemaId, screenId, startTime, endTime, date, price) ==
  [movieId |-> movieId,
   cinemaId |-> cinemaId,
   screenId |-> screenId,
   startTime |-> startTime,
   endTime |-> endTime,
   date |-> date,
   price |-> IF Falsy(price) THEN Cinemas[cinemaId].priceList ELSE price,  \* price || cinema.priceList
   availableSeats |-> Cinemas[cinemaId].screens[screenId].seats.total,
   bookedSeats |-> {},
   status |-> "upcoming",
   isActive |-> TRUE]

Respond(op, code, id) == last' = [op |-> op, code |-> code, id |-> id]

(***************************************************************************)
(* createShowtime, served without interleaving                             *)
(***************************************************************************)
Create(movieId, cinemaId, screenId, startTime, date, price) ==
  /\ IF ~MovieExists(movieId) \/ ~CinemaExists(cinemaId)
     THEN /\ Respond("create", 404, 0)
          /\ UNCHANGED <<showtimes, created>>
     ELSE IF ~ScreenExists(cinemaId, screenId)
     THEN /\ Respond("create", 404, 0)
          /\ UNCHANGED <<showtimes, created>>
     ELSE LET endTime == EndTimeOf(startTime, movies[movieId].duration, tz)
          IN IF Conflicting(showtimes, cinemaId, screenId, date, startTime, endTime) # {}
             THEN /\ Respond("create", 400, 0)
                  /\ UNCHANGED <<showtimes, created>>
             ELSE /\ Len(showtimes) < MaxShowtimes
                  /\ showtimes' = Append(showtimes,
                       NewShowtime(movieId, cinemaId, screenId, startTime, endTime, date, price))
                  /\ created' = Append(created,
                       [startTime |-> startTime, duration |-> movies[movieId].duration])
                  /\ Respond("create", 201, Len(showtimes) + 1)
  /\ UNCHANGED <<movies, now, tz, procs>>

(***************************************************************************)
(* updateShowtime: findByIdAndUpdate(id, req.body)                         *)
(***************************************************************************)
\* $set of every field the request body names
ApplyPatch(doc, patch) ==
  [f \in DOMAIN doc |-> IF f \in DOMAIN patch THEN patch[f] ELSE doc[f]]

Update(id, patch) ==
  /\ IF ~ShowtimeExists(id)
     THEN /\ Respond("update", 404, id)
          /\ UNCHANGED showtimes
     ELSE /\ showtimes' = [showtimes EXCEPT ![id] = ApplyPatch(@, patch)]
          /\ Respond("update", 200, id)
  /\ UNCHANGED <<movies, created, now, tz, procs>>

(***************************************************************************)
(* deleteShowtime                                                          *)
(***************************************************************************)
\* a delete that treats a missing showtime as already deleted
DeleteIdempotent(id) ==
  /\ IF ~ShowtimeExists(id)
     THEN /\ Respond("delete", 200, 0)
          /\ UNCHANGED showtimes
     ELSE IF Cardinality(showtimes[id].bookedSeats) > 0
     THEN /\ Respond("delete", 400, id)
          /\ UNCHANGED showtimes
     ELSE /\ showtimes' = [showtimes EXCEPT ![id].isActive = FALSE]
          /\ Respond("delete", 200, id)
  /\ UNCHANGED <<movies, created, now, tz, procs>>

\* the test of the bookings off by one
HasManyBookings(doc) == Cardinality(doc.bookedSeats) > 1

\* showtime.bookedSeats.length > 0
HasBookings(doc) == Cardinality(doc.bookedSeats) > 0

Delete(id) ==
  /\ IF ~ShowtimeExists(id)
     THEN /\ Respond("delete", 404, id)
          /\ UNCHANGED showtimes
     ELSE IF HasBookings(showtimes[id])
     THEN /\ Respond("delete", 400, id)
          /\ UNCHANGED showtimes
     ELSE /\ showtimes' = [showtimes EXCEPT ![id].isActive = FALSE]
          /\ Respond("delete", 200, id)
  /\ UNCHANGED <<movies, created, now, tz, procs>>

(***************************************************************************)
(* getShowtime: refresh the status on read and save it                     *)
(***************************************************************************)
\* showtime.updateStatus() of the Showtime model
updateStatus(doc, t) ==
  IF t < doc.startTime THEN "upcoming"
  ELSE IF t <= doc.endTime THEN "ongoing"
  ELSE "ended"

\* a read that refreshes the status of active showtimes only
GetShowtimeActiveOnly(id) ==
  /\ IF ~ShowtimeExists(id)
     THEN /\ Respond("get", 404, id)
          /\ UNCHANGED showtimes
     ELSE /\ showtimes' = [showtimes EXCEPT ![id].status =
                             IF showtimes[id].isActive
                             THEN updateStatus(showtimes[id], now) ELSE @]
          /\ Respond("get", 200, id)
  /\ UNCHANGED <<movies, created, now, tz, procs>>

GetShowtime(id) ==
  /\ IF ~ShowtimeExists(id)
     THEN /\ Respond("get", 404, id)
          /\ UNCHANGED showtimes
     ELSE /\ showtimes' = [showtimes EXCEPT ![id].status = updateStatus(showtimes[id], now)]
          /\ Respond("get", 200, id)
  /\ UNCHANGED <<movies, created, now, tz, procs>>

(***************************************************************************)
(* The listing queries                                                     *)
(***************************************************************************)
\* the query that leaves out a showtime starting at the very instant of the request
InStartRangeStrict(doc, date, t, z) ==
  IF date # NoDate
  THEN /\ doc.startTime >= setHours(date, 0, 0, z)
       /\ doc.startTime <= setHours(date, 23, 59, z)
  ELSE doc.startTime > t

\* query.startTime: the local day of `date` when one is given, the future otherwise
InStartRange(doc, date, t, z) ==
  IF date # NoDate
  THEN /\ doc.startTime >= setHours(date, 0, 0, z)
       /\ doc.startTime <= setHours(date, 23, 59, z)
  ELSE doc.startTime >= t

\* the query without its isActive filter
MatchesIgnoringActive(doc, movieId, cinemaId, date, t, z) ==
  /\ movieId # None => doc.movieId = movieId
  /\ cinemaId # None => doc.cinemaId = cinemaId
  /\ InStartRange(doc, date, t, z)

\* Showtime.find(query) with query = {isActive: true, movieId?, cinemaId?, startTime}
Matches(doc, movieId, cinemaId, date, t, z) ==
  /\ doc.isActive
  /\ movieId # None => doc.movieId = movieId
  /\ cinemaId # None => doc.cinemaId = cinemaId
  /\ InStartRange(doc, date, t, z)

Find(movieId, cinemaId, date) ==
  {i \in Ids : Matches(showtimes[i], movieId, cinemaId, date, now, tz)}

\* the result left in the order of insertion
RECURSIVE SortById(_)
SortById(S) ==
  IF S = {} THEN <<>>
  ELSE LET first == CHOOSE i \in S : \A j \in S : i <= j
       IN <<first>> \o SortById(S \ {first})

\* .sort('startTime'): ascending, documents of equal startTime in _id order
RECURSIVE SortByStartTime(_)
SortByStartTime(S) ==
  IF S = {} THEN <<>>
  ELSE LET first == CHOOSE i \in S :
                      \A j \in S : \/ showtimes[i].startTime < showtimes[j].startTime
                                   \/ /\ showtimes[i].startTime = showtimes[j].startTime
                                      /\ i <= j
       IN <<first>> \o SortByStartTime(S \ {first})

\* a page that skips page - 1 documents instead of page - 1 pages
PageSkipsDocuments(seq, page, limit) ==
  SubSeq(seq, page, IF page - 1 + limit < Len(seq) THEN page - 1 + limit ELSE Len(seq))

\* .limit(limit * 1).skip((page - 1) * limit)
Page(seq, page, limit) ==
  SubSeq(seq, (page - 1) * limit + 1,
         IF page * limit < Len(seq) THEN page * limit ELSE Len(seq))

getShowtimes(movieId, cinemaId, date, page, limit) ==
  Page(SortByStartTime(Find(movieId, cinemaId, date)), page, limit)

\* total: count and totalPages: Math.ceil(count / limit) of getShowtimes
total(movieId, cinemaId, date) == Cardinality(Find(movieId, cinemaId, date))

totalPages(movieId, cinemaId, date, limit) ==
  LET count == total(movieId, cinemaId, date)
  IN IF count % limit = 0 THEN count \div limit ELSE count \div limit + 1

getShowtimesByMovie(movieId, date, cinemaId) ==
  SortByStartTime(Find(movieId, cinemaId, date))

getShowtimesByCinema(cinemaId, date, movieId) ==
  SortByStartTime(Find(movieId, cinemaId, date))

Range(seq) == {seq[k] : k \in 1..Len(seq)}

(***************************************************************************)
(* The collaborators: bookings, catalog edits, the clock                   *)
(***************************************************************************)
Seats == {"A1", "A2"}

\* a confirmed booking: one seat appended to bookedSeats, availableSeats decremented
Book(id, seat) ==
  /\ ShowtimeExists(id)
  /\ showtimes[id].isActive
  /\ seat \notin showtimes[id].bookedSeats
  /\ showtimes[id].availableSeats > 0
  /\ showtimes' = [showtimes EXCEPT ![id].bookedSeats = @ \cup {seat},
                                    ![id].availableSeats = @ - 1]
  /\ Respond("book", 200, id)
  /\ UNCHANGED <<movies, created, now, tz, procs>>

\* an edit of a movie's duration in the catalog
EditMovieDuration(m, d) ==
  /\ MovieExists(m)
  /\ movies[m].duration # d
  /\ movies' = [movies EXCEPT ![m].duration = d]
  /\ Respond("editMovie", 200, 0)
  /\ UNCHANGED <<showtimes, created, now, tz, procs>>

NowTimes == {800, 900, 1000}

Tick(t) ==
  /\ t > now
  /\ now' = t
  /\ UNCHANGED <<showtimes, movies, created, tz, last, procs>>

(***************************************************************************)
(* createShowtime as the store sees it: one step per awaited store call    *)
(***************************************************************************)
Procs == {"p1", "p2"}

IdleProc ==
  [pc |-> "idle", movieId |-> None, cinemaId |-> None, screenId |-> None,
   startTime |-> 0, endTime |-> 0, date |-> 0, price |-> None, code |-> 0, id |-> 0]

\* the request arrives; Movie.findById, Cinema.findById, cinema.screens.id and the
\* end time (the catalog is not written while these requests run)
CreateLookup(p, movieId, cinemaId, screenId, startTime, date, price) ==
  /\ procs[p].pc = "idle"
  /\ IF ~MovieExists(movieId) \/ ~CinemaExists(cinemaId)
     THEN procs' = [procs EXCEPT ![p].pc = "done", ![p].code = 404]
     ELSE IF ~ScreenExists(cinemaId, screenId)
     THEN procs' = [procs EXCEPT ![p].pc = "done", ![p].code = 404]
     ELSE procs' = [procs EXCEPT ![p] =
            [pc |-> "findOne", movieId |-> movieId, cinemaId |-> cinemaId,
             screenId |-> screenId, startTime |-> startTime,
             endTime |-> EndTimeOf(startTime, movies[movieId].duration, tz),
             date |-> date, price |-> price, code |-> 0, id |-> 0]]
  /\ UNCHANGED <<showtimes, movies, created, now, tz, last>>

\* await Showtime.findOne(...) and the test of its result
CreateFindOne(p) ==
  /\ procs[p].pc = "findOne"
  /\ IF Conflicting(showtimes, procs[p].cinemaId, procs[p].screenId, procs[p].date,
                    procs[p].startTime, procs[p].endTime) # {}
     THEN procs' = [procs EXCEPT ![p].pc = "done", ![p].code = 400]
     ELSE procs' = [procs EXCEPT ![p].pc = "create"]
  /\ UNCHANGED <<showtimes, movies, created, now, tz, last>>

\* await Showtime.create(...) and the 201 response
CreateInsert(p) ==
  /\ procs[p].pc = "create"
  /\ Len(showtimes) < MaxShowtimes
  /\ showtimes' = Append(showtimes,
       NewShowtime(procs[p].movieId, procs[p].cinemaId, procs[p].screenId,
                   procs[p].startTime, procs[p].endTime, procs[p].date, procs[p].price))
  /\ created' = Append(created,
       [startTime |-> procs[p].startTime, duration |-> movies[procs[p].movieId].duration])
  /\ procs' = [procs EXCEPT ![p].pc = "done", ![p].code = 201, ![p].id = Len(showtimes) + 1]
  /\ UNCHANGED <<movies, now, tz, last>>

(***************************************************************************)
(* deleteShowtime as the store sees it: one step per awaited store call    *)
(***************************************************************************)
\* await Showtime.findById(id) and the tests of the document it returned
DeleteFind(p, id) ==
  /\ procs[p].pc = "idle"
  /\ IF ~ShowtimeExists(id)
     THEN procs' = [procs EXCEPT ![p].pc = "done", ![p].code = 404, ![p].id = id]
     ELSE IF Cardinality(showtimes[id].bookedSeats) > 0
     THEN procs' = [procs EXCEPT ![p].pc = "done", ![p].code = 400, ![p].id = id]
     ELSE procs' = [procs EXCEPT ![p].pc = "save", ![p].id = id]
  /\ UNCHANGED <<showtimes, movies, created, now, tz, last>>

\* showtime.isActive = false; await showtime.save(): the modified path is written
DeleteSave(p) ==
  /\ procs[p].pc = "save"
  /\ showtimes' = [showtimes EXCEPT ![procs[p].id].isActive = FALSE]
  /\ procs' = [procs EXCEPT ![p].pc = "done", ![p].code = 200]
  /\ UNCHANGED <<movies, created, now, tz, last>>

(***************************************************************************)
(* Requests served one at a time.  Each specification below serves the     *)
(* requests of one scenario, drawn from the sets it names.                 *)
(***************************************************************************)
StartTimes == {840, 900, 975}

Dates == {0, 24 * 60}

Init ==
  /\ showtimes = <<>>
  /\ movies = InitialMovies
  /\ created = <<>>
  /\ now = 800
  /\ tz \in TZOffsets
  /\ last = [op |-> "none", code |-> 0, id |-> 0]
  /\ procs = [p \in Procs |-> IdleProc]

CreateRequest(M, C, S, T, D, P) ==
  \E m \in M, c \in C, s \in S, st \in T, d \in D, p \in P : Create(m, c, s, st, d, p)

UpdateRequest(P) == \E id \in 1..(MaxShowtimes + 1), patch \in P : Update(id, patch)

DeleteRequest == \E id \in 1..(MaxShowtimes + 1) : Delete(id)

GetRequest == \E id \in 1..(MaxShowtimes + 1) : GetShowtime(id)

BookRequest == \E id \in 1..MaxShowtimes, seat \in Seats : Book(id, seat)

CatalogEdit(M) == \E m \in M, d \in Durations : EditMovieDuration(m, d)

ClockTick == \E t \in NowTimes : Tick(t)

Patches ==
  {[startTime |-> t] : t \in {840, 975}}
    \cup {[screenId |-> s] : s \in {"s1", "s2"}}
    \cup {[date |-> d] : d \in Dates}

\* the administrator's requests on cinema c1, with edits of the movie's duration
Next ==
  \/ CreateRequest({"m1"}, {"c1"}, {"s1", "s2"}, {840, 975}, {0}, {None})
  \/ UpdateRequest(Patches)
  \/ DeleteRequest
  \/ CatalogEdit({"m1"})

Spec == Init /\ [][Next]_vars

\* create and delete on the two screens of cinema c1
NextCreate ==
  \/ CreateRequest({"m1"}, {"c1"}, {"s1", "s2"}, StartTimes, Dates, {None})
  \/ DeleteRequest

SpecCreate == Init /\ [][NextCreate]_vars

\* creates of movies of several durations, at start times whose end crosses the
\* hour and the local midnight
StartTimesOfDay == {840, 1080, 1410}

NextDuration ==
  \/ CreateRequest({"m1", "m2"}, {"c1"}, {"s1"}, StartTimesOfDay, {0}, {None})
  \/ CatalogEdit({"m1", "m2"})

SpecDuration == Init /\ [][NextDuration]_vars

\* bookings and deletes
NextDelete ==
  \/ CreateRequest({"m1"}, {"c1"}, {"s1", "s2"}, {840, 975}, {0}, {None})
  \/ BookRequest
  \/ DeleteRequest

SpecDelete == Init /\ [][NextDelete]_vars

\* requests naming movies, cinemas, screens and showtimes that exist or not
NextRefs ==
  \/ CreateRequest(MovieIds, CinemaIds, ScreenIds, {840}, {0}, {None})
  \/ UpdateRequest({[isActive |-> FALSE]})
  \/ DeleteRequest
  \/ GetRequest

SpecRefs == Init /\ [][NextRefs]_vars

\* deletes, reactivating updates and the clock, for the listing queries
NextListing ==
  \/ CreateRequest({"m1", "m2"}, {"c1"}, {"s1"}, {840, 975}, {0}, {None})
  \/ UpdateRequest({[isActive |-> TRUE]})
  \/ DeleteRequest
  \/ ClockTick

SpecListing == Init /\ [][NextListing]_vars

\* two create requests in flight, their store calls interleaved
NextRace ==
  \/ \E p \in Procs, s \in {"s1", "s2"}, st \in StartTimes :
       CreateLookup(p, "m1", "c1", s, st, 0, None)
  \/ \E p \in Procs : CreateFindOne(p)
  \/ \E p \in Procs : CreateInsert(p)

SpecRace == Init /\ [][NextRace]_vars

\* creates with and without a price, on screens of different sizes
Prices == {None, "0", "custom"}

NextPrice ==
  \/ CreateRequest({"m1"}, {"c1", "c2"}, ScreenIds, {840}, {0}, Prices)
  \/ DeleteRequest

SpecPrice == Init /\ [][NextPrice]_vars

\* patches of the seat count and of the hall, next to bookings
SeatPatches ==
  {[availableSeats |-> n] : n \in {0, 3}}
    \cup {[cinemaId |-> "c2", screenId |-> "s3"]}

NextSeats ==
  \/ CreateRequest({"m1"}, {"c1"}, {"s1", "s2"}, {840, 975}, {0}, {None})
  \/ UpdateRequest(SeatPatches)
  \/ BookRequest

SpecSeats == Init /\ [][NextSeats]_vars

\* time edits by the administrator, reads of one showtime, and the clock
TimePatches == {[startTime |-> t] : t \in {900, 1100}} \cup {[endTime |-> 850]}

NextStatus ==
  \/ CreateRequest({"m1"}, {"c1"}, {"s1"}, {840, 975}, {0}, {None})
  \/ UpdateRequest(TimePatches)
  \/ GetRequest
  \/ ClockTick

SpecStatus == Init /\ [][NextStatus]_vars

\* showtimes of two movies in two cinemas, some deleted, some already started
NextFuture ==
  \/ CreateRequest({"m1", "m2"}, {"c1", "c2"}, {"s1", "s3"}, {900, 975}, {0}, {None})
  \/ DeleteRequest
  \/ ClockTick

SpecFuture == Init /\ [][NextFuture]_vars

\* a day's programme built on cinema c1: each start time lies on the calendar
\* day, in the server's local time, that the request names as its date
NextRoundTrip ==
  \/ CreateRequest({"m1", "m2"}, {"c1"}, {"s1", "s2"}, {840, 975, 1080}, {0}, {None})
  \/ CreateRequest({"m1", "m2"}, {"c1"}, {"s1", "s2"}, {24 * 60 + 840}, {24 * 60}, {None})
  \/ ClockTick

SpecRoundTrip == Init /\ [][NextRoundTrip]_vars

\* reads of one showtime, active or deleted, as the clock advances
NextRead ==
  \/ CreateRequest({"m1"}, {"c1"}, {"s1", "s2"}, {840}, {0}, {None})
  \/ DeleteRequest
  \/ GetRequest
  \/ ClockTick

SpecRead == Init /\ [][NextRead]_vars

\* delete requests in flight while seats are booked
NextDeleteRace ==
  \/ CreateRequest({"m1"}, {"c1"}, {"s1", "s2"}, {840}, {0}, {None})
  \/ BookRequest
  \/ \E p \in Procs, id \in 1..(MaxShowtimes + 1) : DeleteFind(p, id)
  \/ \E p \in Procs : DeleteSave(p)

SpecDeleteRace == Init /\ [][NextDeleteRace]_vars

\* a late showing of one day (23:00) and an early one of the next (00:30)
NextMidnight ==
  \/ CreateRequest({"m1"}, {"c1"}, {"s1", "s2"}, {23 * 60}, {0}, {None})
  \/ CreateRequest({"m1"}, {"c1"}, {"s1", "s2"}, {24 * 60 + 30}, {24 * 60}, {None})
  \/ DeleteRequest

SpecMidnight == Init /\ [][NextMidnight]_vars

\* reads of one showtime as the clock advances, between updates that write the
\* status field or move the start
StatusPatches == {[status |-> st] : st \in {"upcoming", "ended"}} \cup {[startTime |-> 1100]}

NextCache ==
  \/ CreateRequest({"m1"}, {"c1"}, {"s1"}, {840, 975}, {0}, {None})
  \/ UpdateRequest(StatusPatches)
  \/ GetRequest
  \/ ClockTick

SpecCache == Init /\ [][NextCache]_vars

(***************************************************************************)
(* Properties                                                              *)
(***************************************************************************)
SameSlot(a, b) ==
  a.cinemaId = b.cinemaId /\ a.screenId = b.screenId /\ a.date = b.date

\* [a.startTime, a.endTime) and [b.startTime, b.endTime) share an instant
Overlap(a, b) == a.startTime < b.endTime /\ b.startTime < a.endTime

\* C1: in every reachable state, two distinct active showtimes of the same
\* (cinemaId, screenId, date) have intervals [startTime, endTime) that do not overlap.
C1_NoOverlap ==
  \A i, j \in Ids :
    (i # j /\ showtimes[i].isActive /\ showtimes[j].isActive
       /\ SameSlot(showtimes[i], showtimes[j]))
      => ~Overlap(showtimes[i], showtimes[j])

\* C2: of two create requests for the same (cinemaId, screenId, date) with
\* intersecting intervals, served concurrently, at most one persists a showtime.
C2_AtMostOnePersists ==
  \A p, q \in Procs :
    (/\ p # q
     /\ procs[p].pc = "done" /\ procs[q].pc = "done"
     /\ procs[p].code = 201 /\ procs[q].code = 201)
      => ~(SameSlot(procs[p], procs[q]) /\ Overlap(procs[p], procs[q]))

\* C3: a create whose movie, cinema and screen exist is rejected with 400 and
\* persists nothing exactly when an active showtime of the same (cinemaId, screenId,
\* date) starts before the candidate's end and ends after the candidate's start;
\* otherwise it is accepted with 201 and persists the candidate, in particular
\* when the candidate starts at an existing showtime's endTime.
C3_ConflictIffOverlap ==
  [][\A m \in {"m1"}, c \in {"c1"}, s \in {"s1", "s2"},
        st \in StartTimes, d \in Dates :
       (last'.op = "create" /\ Create(m, c, s, st, d, None))
         => LET candidateEnd == st + movies[m].duration + CleaningBuffer
                clash == \E i \in Ids :
                           /\ showtimes[i].isActive
                           /\ showtimes[i].cinemaId = c
                           /\ showtimes[i].screenId = s
                           /\ showtimes[i].date = d
                           /\ showtimes[i].startTime < candidateEnd
                           /\ showtimes[i].endTime > st
            IN /\ clash => (last'.code = 400 /\ showtimes' = showtimes)
               /\ ~clash => /\ last'.code = 201
                            /\ Len(showtimes') = Len(showtimes) + 1
                            /\ SubSeq(showtimes', 1, Len(showtimes)) = showtimes
                            /\ showtimes'[Len(showtimes')].startTime = st
                            /\ showtimes'[Len(showtimes')].screenId = s
                            /\ showtimes'[Len(showtimes')].date = d]_vars

\* a create was accepted for a candidate that starts exactly when an active
\* showtime of the same screen and date ends
C3_AbuttingAccepted ==
  /\ last.op = "create" /\ last.code = 201
  /\ \E i \in Ids \ {last.id} :
       /\ showtimes[i].isActive
       /\ SameSlot(showtimes[i], showtimes[last.id])
       /\ showtimes[i].endTime = showtimes[last.id].startTime

\* C4: an update that changes startTime, screenId or date and whose resulting
\* interval overlaps another active showtime of the same (cinemaId, screenId, date)
\* is rejected and leaves the record unchanged.
C4_UpdateRechecksConflict ==
  [][\A id \in Ids, patch \in Patches :
       LET doc == ApplyPatch(showtimes[id], patch)
       IN (/\ Update(id, patch)
           /\ \E f \in {"startTime", "screenId", "date"} :
                f \in DOMAIN patch /\ patch[f] # showtimes[id][f]
           /\ \E j \in Ids \ {id} :
                /\ showtimes[j].isActive
                /\ SameSlot(showtimes[j], doc)
                /\ Overlap(showtimes[j], doc))
            => (showtimes' = showtimes /\ last'.code = 400)]_vars

\* C5: a successful create stores endTime = startTime + the movie's duration in
\* minutes + 15 minutes, whatever the startTime and the duration.
C5_EndTimeAtCreate ==
  [][\A m \in DOMAIN movies, st \in StartTimesOfDay :
       (Create(m, "c1", "s1", st, 0, None) /\ last'.code = 201)
         => /\ showtimes'[last'.id].startTime = st
            /\ showtimes'[last'.id].endTime = st + movies[m].duration + CleaningBuffer]_vars

\* a movie of 120 minutes was scheduled at 14:00 and its showtime ends at 16:15
C5_Created1400To1615 ==
  /\ last.op = "create" /\ last.code = 201
  /\ created[last.id].duration = 120
  /\ showtimes[last.id].startTime = 14 * 60
  /\ showtimes[last.id].endTime = 16 * 60 + 15

\* C6: in every reachable state, each showtime's endTime is its current startTime
\* plus the movie duration read when it was created plus 15 minutes.
C6_EndTimeDerived ==
  \A i \in Ids :
    showtimes[i].endTime = showtimes[i].startTime + created[i].duration + CleaningBuffer

\* C7: a delete of a showtime with booked seats answers 400 and leaves the record,
\* isActive included, and the collection unchanged; no delete deactivates a
\* showtime that has a booked seat.
C7_DeleteKeepsBooked ==
  [][\A id \in Ids :
       /\ (Delete(id) /\ showtimes[id].bookedSeats # {})
            => /\ showtimes' = showtimes
               /\ last' = [op |-> "delete", code |-> 400, id |-> id]
       /\ (last'.op = "delete" /\ showtimes[id].bookedSeats # {} /\ showtimes[id].isActive)
            => showtimes'[id].isActive]_vars

\* a delete was refused for an active showtime that has a booked seat
C7_DeleteRefused ==
  /\ last.op = "delete" /\ last.code = 400
  /\ last.id \in Ids
  /\ showtimes[last.id].bookedSeats # {}
  /\ showtimes[last.id].isActive

\* page and limit of a list request: the default window and every single position
ListWindows == {<<1, 20>>, <<1, 1>>, <<2, 1>>, <<3, 1>>, <<4, 1>>}

\* the record is in the result of one of the three listing queries, for some
\* filters, page and limit
ListedAnywhere(i) ==
  \E mv \in MovieIds \cup {None}, c \in CinemaIds \cup {None}, d \in Dates \cup {NoDate} :
    \/ \E w \in ListWindows : i \in Range(getShowtimes(mv, c, d, w[1], w[2]))
    \/ mv # None /\ i \in Range(getShowtimesByMovie(mv, d, c))
    \/ c # None /\ i \in Range(getShowtimesByCinema(c, d, mv))

\* C8 as amended: a delete of an existing showtime without booked seats answers
\* 200 and keeps the record with isActive = false, and no listing query returns a
\* record for as long as its isActive is false.
C8_DeletedUnlistedWhileInactive ==
  /\ (last.op = "delete" /\ last.id \in Ids /\ showtimes[last.id].bookedSeats = {})
       => (last.code = 200 /\ ~showtimes[last.id].isActive)
  /\ \A id \in Ids : ~showtimes[id].isActive => ~ListedAnywhere(id)

\* a showtime was deleted and is still in the collection, inactive, where the
\* listing of future showtimes would return it were it active
C8_DeletedKept ==
  /\ last.op = "delete" /\ last.code = 200
  /\ last.id \in Ids
  /\ ~showtimes[last.id].isActive
  /\ MatchesIgnoringActive(showtimes[last.id], None, None, NoDate, now, tz)

\* C8: a delete of an existing showtime without booked seats answers 200 and keeps
\* the record with isActive = false, and from then on no listing query returns it.
C8_DeletedNeverListed ==
  [][/\ \A id \in Ids :
          (Delete(id) /\ showtimes[id].bookedSeats = {})
            => /\ last'.code = 200
               /\ showtimes' = [showtimes EXCEPT ![id].isActive = FALSE]
               /\ ~ListedAnywhere(id)'
     /\ \A id \in Ids : ~showtimes[id].isActive => ~ListedAnywhere(id)']_vars

\* C9: a request that names a missing record answers 404 and writes nothing:
\* create with a missing movie, cinema or screen of the cinema; update, delete and
\* fetch-one with a missing showtime id.
C9_NotFoundWritesNothing ==
  [][/\ \A m \in MovieIds, c \in CinemaIds, s \in ScreenIds :
          (/\ last'.op = "create"
           /\ Create(m, c, s, 840, 0, None)
           /\ \/ m \notin DOMAIN movies
              \/ c \notin DOMAIN Cinemas
              \/ s \notin DOMAIN Cinemas[c].screens)
            => (last'.code = 404 /\ showtimes' = showtimes)
     /\ \A id \in (1..(MaxShowtimes + 1)) \ Ids :
          /\ Update(id, [isActive |-> FALSE]) => (last'.code = 404 /\ showtimes' = showtimes)
          /\ Delete(id) => (last'.code = 404 /\ showtimes' = showtimes)
          /\ GetShowtime(id) => (last'.code = 404 /\ showtimes' = showtimes)]_vars

\* a request was answered 404 while the collection holds showtimes
C9_NotFoundAnswered ==
  /\ last.code = 404
  /\ last.op \in {"create", "update", "delete", "get"}
  /\ Len(showtimes) > 0

\* C10: a create that names an existing but inactive movie, or an existing but
\* inactive cinema, is rejected and persists no showtime.
C10_CreateNeedsActive ==
  [][\A m \in DOMAIN movies, c \in DOMAIN Cinemas, s \in ScreenIds :
       (/\ last'.op = "create"
        /\ Create(m, c, s, 840, 0, None)
        /\ (~movies[m].isActive \/ ~Cinemas[c].isActive))
         => (last'.code # 201 /\ showtimes' = showtimes)]_vars

\* the effect of an accepted create on the collection, but for the price: one
\* document appended, with the screen's seat count, no booked seat and active
CreatedOne(c, s, new) ==
  /\ Len(showtimes') = Len(showtimes) + 1
  /\ SubSeq(showtimes', 1, Len(showtimes)) = showtimes
  /\ new = showtimes'[Len(showtimes')]
  /\ new.availableSeats = Cinemas[c].screens[s].seats.total
  /\ new.bookedSeats = {}
  /\ new.isActive

C12_SeatsInRange ==
  \A i \in Ids :
    /\ showtimes[i].availableSeats \in Int
    /\ showtimes[i].availableSeats >= 0
    /\ showtimes[i].availableSeats
         <= Cinemas[showtimes[i].cinemaId].screens[showtimes[i].screenId].seats.total

\* C13: updateStatus depends on startTime, endTime and the current time only: it
\* returns upcoming if now < startTime, ongoing if startTime <= now <= endTime and
\* ended if now > endTime, and exactly one of the three conditions holds for any
\* showtime.
C13_StatusTrichotomy ==
  \A i \in Ids :
    LET doc == showtimes[i]
        upcoming == now < doc.startTime
        ongoing == doc.startTime <= now /\ now <= doc.endTime
        ended == now > doc.endTime
    IN /\ upcoming => updateStatus(doc, now) = "upcoming"
       /\ ongoing => updateStatus(doc, now) = "ongoing"
       /\ ended => updateStatus(doc, now) = "ended"
       /\ Cardinality({c \in {<<1, upcoming>>, <<2, ongoing>>, <<3, ended>>} : c[2]}) = 1

\* the sequence is in ascending order of startTime
Ascending(seq) ==
  \A k \in 1..(Len(seq) - 1) : showtimes[seq[k]].startTime <= showtimes[seq[k + 1]].startTime

\* the active showtimes of the movie and cinema asked for that start at `now` or later
FutureActive(mv, c) ==
  {i \in Ids : /\ showtimes[i].isActive
               /\ showtimes[i].startTime >= now
               /\ mv # None => showtimes[i].movieId = mv
               /\ c # None => showtimes[i].cinemaId = c}

\* the result holds each of the expected showtimes once, in ascending order
ListsExactly(seq, expected) ==
  /\ Range(seq) = expected
  /\ Len(seq) = Cardinality(expected)
  /\ Ascending(seq)

\* C14: without a date filter, list, listByMovie and listByCinema return only
\* active showtimes with startTime >= now, return every active showtime of the
\* movie/cinema filter with startTime >= now (in the whole, unpaginated result),
\* and return them in ascending order of startTime.
C14_FutureListing ==
  \A mv \in MovieIds \cup {None}, c \in CinemaIds \cup {None} :
    /\ ListsExactly(getShowtimes(mv, c, NoDate, 1, 20), FutureActive(mv, c))
    /\ mv # None => ListsExactly(getShowtimesByMovie(mv, NoDate, c), FutureActive(mv, c))
    /\ c # None => ListsExactly(getShowtimesByCinema(c, NoDate, mv), FutureActive(mv, c))

\* the listing returns the later-created showtime first, starting at the very
\* instant of the request, and the listings of one cinema and of one movie leave
\* out the other's showtime
C14_SortedAndFiltered ==
  /\ now = 900
  /\ getShowtimes(None, None, NoDate, 1, 20) = <<2, 1>>
  /\ showtimes[2].startTime = now
  /\ getShowtimesByCinema("c2", NoDate, None) = <<2>>
  /\ getShowtimesByMovie("m1", NoDate, None) = <<1>>

\* the showtimes of the screen and date, of which the request is one
OnScreenAndDate(c, s, d) ==
  {i \in Ids : /\ showtimes[i].cinemaId = c
               /\ showtimes[i].screenId = s
               /\ showtimes[i].date = d}

\* the listings by cinema and date hold the showtimes created for that cinema and
\* date, each once, in ascending order of startTime
DateListed(c, d) ==
  LET made == {i \in Ids : showtimes[i].cinemaId = c /\ showtimes[i].date = d}
  IN /\ ListsExactly(getShowtimesByCinema(c, d, None), made)
     /\ ListsExactly(getShowtimes(None, c, d, 1, 20), made)

Pages == 1..4
Limits == 1..3

\* the positions (page - 1) * limit .. page * limit - 1, counted from 0, of the sequence
Positions(seq, page, limit) ==
  [k \in 1..(IF Len(seq) - (page - 1) * limit < 0 THEN 0
             ELSE IF Len(seq) - (page - 1) * limit < limit
                  THEN Len(seq) - (page - 1) * limit
                  ELSE limit) |-> seq[(page - 1) * limit + k]]

\* pages 1 .. n of list, one after the other
RECURSIVE PagesUpTo(_, _, _, _, _)
PagesUpTo(mv, c, d, n, limit) ==
  IF n = 0 THEN <<>>
  ELSE PagesUpTo(mv, c, d, n - 1, limit) \o getShowtimes(mv, c, d, n, limit)

\* C16 as amended: list is paginated by page and limit: page p with limit L holds
\* positions (p-1)*L .. p*L-1 of the sorted filtered result, the pages 1..totalPages
\* put together are that result, and totalPages = ceil(count / L); listByMovie and
\* listByCinema take no page or limit and return the whole sorted filtered result.
C16_ListPaginated ==
  \A mv \in {"m1", None}, c \in {"c1", None}, d \in {NoDate, 0} :
    LET whole == SortByStartTime(Find(mv, c, d))
    IN /\ \A limit \in Limits :
            /\ \A page \in Pages :
                 getShowtimes(mv, c, d, page, limit) = Positions(whole, page, limit)
            /\ totalPages(mv, c, d, limit) * limit >= Len(whole)
            /\ (totalPages(mv, c, d, limit) - 1) * limit < Len(whole) \/ Len(whole) = 0
            /\ PagesUpTo(mv, c, d, totalPages(mv, c, d, limit), limit) = whole
       /\ mv # None => getShowtimesByMovie(mv, d, c) = whole
       /\ c # None => getShowtimesByCinema(c, d, mv) = whole

\* two showtimes are listed on two pages of one, in start-time order
C16_TwoPages ==
  /\ getShowtimes(None, None, NoDate, 1, 1) = <<2>>
  /\ getShowtimes(None, None, NoDate, 2, 1) = <<1>>
  /\ getShowtimes(None, None, NoDate, 3, 1) = <<>>
  /\ totalPages(None, None, NoDate, 1) = 2
  /\ getShowtimesByCinema("c1", NoDate, None) = <<1>>
  /\ getShowtimesByMovie("m1", NoDate, None) = <<2, 1>>

\* C16: list, listByMovie and listByCinema are paginated by page and limit: page p
\* with limit L returns positions (p-1)*L .. p*L-1 of the sorted filtered result,
\* the pages partition it, and totalPages = ceil(count / L).
C16_AllPaginated ==
  \A mv \in {"m1", None}, c \in {"c1", None}, d \in {NoDate, 0} :
    LET whole == SortByStartTime(Find(mv, c, d))
    IN \A limit \in Limits, page \in Pages :
         /\ getShowtimes(mv, c, d, page, limit) = Positions(whole, page, limit)
         /\ totalPages(mv, c, d, limit) * limit >= Len(whole)
         /\ (totalPages(mv, c, d, limit) - 1) * limit < Len(whole) \/ Len(whole) = 0
         /\ mv # None => getShowtimesByMovie(mv, d, c) = Positions(whole, page, limit)
         /\ c # None => getShowtimesByCinema(c, d, mv) = Positions(whole, page, limit)

\* C17: fetching one showtime writes back status = updateStatus at the current
\* time and changes nothing else: no other field of the record and no other
\* showtime, whether the record is active or not.
C17_ReadWritesStatusOnly ==
  [][\A id \in Ids :
       (last'.op = "get" /\ GetShowtime(id))
         => /\ last'.code = 200
            /\ showtimes'[id].status = updateStatus(showtimes[id], now)
            /\ showtimes' = [showtimes EXCEPT ![id].status = showtimes'[id].status]
            /\ UNCHANGED <<movies, created>>]_vars

\* a deleted showtime that has started was read, and its status refreshed, next
\* to another showtime
C17_InactiveRefreshed ==
  /\ last.op = "get" /\ last.code = 200
  /\ last.id \in Ids
  /\ Len(showtimes) = 2
  /\ ~showtimes[last.id].isActive
  /\ now = 900
  /\ showtimes[last.id].status = "ongoing"

\* C18: delete is safe against a concurrent booking: however the read and the save
\* of a delete interleave with a booking that appends to bookedSeats, no showtime
\* has isActive = false and a non-empty bookedSeats.
C18_NoInactiveBooked ==
  \A i \in Ids : ~showtimes[i].isActive => showtimes[i].bookedSeats = {}

\* C19: two distinct active showtimes of the same (cinemaId, screenId) never
\* overlap in absolute time, also when their date fields differ: create rejects a
\* candidate that overlaps an active showtime of the screen stored under another date.
C19_NoOverlapAcrossDates ==
  \A i, j \in Ids :
    (/\ i # j
     /\ showtimes[i].isActive /\ showtimes[j].isActive
     /\ showtimes[i].cinemaId = showtimes[j].cinemaId
     /\ showtimes[i].screenId = showtimes[j].screenId)
      => ~Overlap(showtimes[i], showtimes[j])

\* the showtimes of the candidate's cinema, screen and date that its interval meets
Meeting(c, s, d, st, en) ==
  {i \in OnScreenAndDate(c, s, d) :
     showtimes[i].startTime < en /\ st < showtimes[i].endTime}

\* no two active showtimes of one cinema, screen and date overlap
ActiveDisjoint ==
  \A i, j \in Ids :
    (i # j /\ showtimes[i].isActive /\ showtimes[j].isActive
       /\ SameSlot(showtimes[i], showtimes[j]))
      => (showtimes[i].endTime <= showtimes[j].startTime
            \/ showtimes[j].endTime <= showtimes[i].startTime)

\* C20: a deleted showtime no longer blocks its slot: a create whose interval
\* meets, on its cinema, screen and date, only showtimes that were deleted is
\* accepted, and afterwards the active showtimes of every screen and date are
\* still pairwise disjoint.
C20_DeletedSlotFree ==
  [][\A s \in {"s1", "s2"}, st \in StartTimes, d \in Dates :
       LET met == Meeting("c1", s, d, st, st + movies["m1"].duration + CleaningBuffer)
       IN (/\ last'.op = "create"
           /\ Create("m1", "c1", s, st, d, None)
           /\ met # {}
           /\ \A i \in met : ~showtimes[i].isActive)
            => /\ last'.code = 201
               /\ showtimes' = Append(showtimes, showtimes'[Len(showtimes')])
               /\ showtimes'[Len(showtimes')].isActive
               /\ ActiveDisjoint']_vars

\* a create was accepted in the slot of a deleted showtime that it overlaps
C20_SlotReused ==
  /\ last.op = "create" /\ last.code = 201
  /\ \E i \in Ids \ {last.id} :
       /\ ~showtimes[i].isActive
       /\ SameSlot(showtimes[i], showtimes[last.id])
       /\ Overlap(showtimes[i], showtimes[last.id])

\* the place of a status in the order upcoming -> ongoing -> ended
Rank(status) ==
  CASE status = "upcoming" -> 1
    [] status = "ongoing" -> 2
    [] status = "ended" -> 3

\* startTime and endTime are those the showtime was created with
TimesAsCreated(i) ==
  /\ showtimes[i].startTime = created[i].startTime
  /\ showtimes[i].endTime = EndTimeOf(created[i].startTime, created[i].duration, tz)

\* C21: for a showtime whose startTime and endTime are not edited, the status
\* values of successive fetch-one reads at non-decreasing times never move
\* backwards in the order upcoming -> ongoing -> ended, the status stored after a
\* read is updateStatus at the time of that read, and the stored status is never
\* ahead of the true status.
C21_StatusNeverAhead ==
  /\ [][\A id \in Ids :
          (last'.op = "get" /\ GetShowtime(id) /\ TimesAsCreated(id))
            => /\ showtimes'[id].status = updateStatus(showtimes[id], now)
               /\ Rank(showtimes'[id].status) >= Rank(showtimes[id].status)]_vars
  /\ [](\A i \in Ids :
          TimesAsCreated(i)
            => Rank(showtimes[i].status) <= Rank(updateStatus(showtimes[i], now)))

====
